---- MODULE Spec2Model ----
(***************************************************************************)
(* A model of serde-yaml's Number (src/number.rs): the three-variant       *)
(* representation N, the conversions From<native>, the classification and  *)
(* extraction methods, Display, and the serde bridge (Serialize,           *)
(* Deserialize, Deserializer).                                             *)
(*                                                                         *)
(* Native integers are bit vectors of their real width (8, 16, 32 or 64    *)
(* bits, most significant bit first, two's complement for the signed       *)
(* types); f32 and f64 are IEEE-754 bit patterns.  Casts, comparisons and  *)
(* decimal formatting are computed on the bits, so wrapping, sign          *)
(* extension and the 2^63 boundary are those of the program.               *)
(***************************************************************************)
EXTENDS Integers, Sequences, FiniteSets, TLC

\* How many values next to each boundary (0, MIN, MAX, i64::MAX) the
\* native inputs cover on each side.
Near == 2

(***************************************************************************)
(* Bit vectors                                                             *)
(***************************************************************************)
Pow2(k) == 2 ^ k

Zeros(w) == [i \in 1..w |-> 0]

Ones(w) == [i \in 1..w |-> 1]

\* The w-bit pattern of a small natural k (k < 2^30).
NatBits(k, w) == [i \in 1..w |-> IF w - i < 30 THEN (k \div Pow2(w - i)) % 2 ELSE 0]

\* The value of a vector of at most 30 bits.
BitsNat(a) ==
    LET RECURSIVE Acc(_, _)
        Acc(i, n) == IF i > Len(a) THEN n ELSE Acc(i + 1, 2 * n + a[i])
    IN  Acc(1, 0)

NotBits(a) == [i \in 1..Len(a) |-> 1 - a[i]]

IsZeroBits(a) == \A i \in 1..Len(a) : a[i] = 0

\* A vector of 8, 16, 32 or 64 bits is handled in limbs of LimbBits(w) bits,
\* most significant first.
LimbBits(w) == IF w < 16 THEN w ELSE 16

Limbs(a) ==
    LET l == LimbBits(Len(a))
    IN  [k \in 1..(Len(a) \div l) |-> BitsNat(SubSeq(a, l * (k - 1) + 1, l * k))]

RECURSIVE AddLimbs(_, _, _, _, _)
AddLimbs(x, y, l, k, c) ==
    IF k = 0 THEN <<>>
    ELSE AddLimbs(x, y, l, k - 1, (x[k] + y[k] + c) \div Pow2(l))
           \o NatBits((x[k] + y[k] + c) % Pow2(l), l)

\* Wrapping addition of two vectors of one width (mod 2^w).
WrappingAdd(a, b) ==
    AddLimbs(Limbs(a), Limbs(b), LimbBits(Len(a)), Len(a) \div LimbBits(Len(a)), 0)

\* Two's complement negation (mod 2^w).
WrappingNeg(a) == WrappingAdd(NotBits(a), NatBits(1, Len(a)))

WrappingSub(a, b) == WrappingAdd(a, WrappingNeg(b))

RECURSIVE CmpLimbs(_, _, _)
CmpLimbs(x, y, k) ==
    IF k > Len(x) THEN "Equal"
    ELSE IF x[k] < y[k] THEN "Less"
    ELSE IF x[k] > y[k] THEN "Greater"
    ELSE CmpLimbs(x, y, k + 1)

\* Ordering of two vectors of one width read as unsigned integers.
UCmp(a, b) == CmpLimbs(Limbs(a), Limbs(b), 1)

\* Ordering of two vectors of one width read as two's complement integers.
SCmp(a, b) ==
    IF a[1] # b[1] THEN (IF a[1] = 1 THEN "Less" ELSE "Greater")
    ELSE UCmp(a, b)

\* Widening casts: `x as u64` of an unsigned x, `x as i64` / `x as u64` of a
\* signed x (sign extension, then the same bits).
ZeroExtend(a, w) == [i \in 1..w |-> IF i <= w - Len(a) THEN 0 ELSE a[i - (w - Len(a))]]

SignExtend(a, w) == [i \in 1..w |-> IF i <= w - Len(a) THEN a[1] ELSE a[i - (w - Len(a))]]

\* Number of bits after the leading zeros (0 for zero).
BitLen(a) ==
    IF IsZeroBits(a) THEN 0
    ELSE Len(a) + 1 - (CHOOSE i \in 1..Len(a) : a[i] = 1 /\ \A j \in 1..(i - 1) : a[j] = 0)

(***************************************************************************)
(* Native types                                                            *)
(***************************************************************************)
SignedTy == {"i8", "i16", "i32", "i64", "isize"}

UnsignedTy == {"u8", "u16", "u32", "u64", "usize"}

FloatTy == {"f32", "f64"}

\* Bits of each native type; isize and usize are those of a 64-bit target.
Width(ty) ==
    CASE ty \in {"i8", "u8"} -> 8
      [] ty \in {"i16", "u16"} -> 16
      [] ty \in {"i32", "u32", "f32"} -> 32
      [] ty \in {"i64", "u64", "isize", "usize", "f64"} -> 64

Some(x) == <<"Some", x>>

None == <<"None">>

Ok(x) == <<"Ok", x>>

Err(e) == <<"Err", e>>

(***************************************************************************)
(* IEEE-754 bit patterns: f64 = 1 sign, 11 exponent, 52 fraction bits;     *)
(* f32 = 1 sign, 8 exponent, 23 fraction bits.                             *)
(***************************************************************************)
F64Exp(f) == SubSeq(f, 2, 12)

F64Frac(f) == SubSeq(f, 13, 64)

f64_is_nan(f) == F64Exp(f) = Ones(11) /\ ~IsZeroBits(F64Frac(f))

f64_is_infinite(f) == F64Exp(f) = Ones(11) /\ IsZeroBits(F64Frac(f))

f64_is_finite(f) == F64Exp(f) # Ones(11)

f64_is_sign_negative(f) == f[1] = 1

F64IsZero(f) == IsZeroBits(Tail(f))

\* f64::partial_cmp: None when either side is NaN, -0.0 equals +0.0.
f64_partial_cmp(a, b) ==
    IF f64_is_nan(a) \/ f64_is_nan(b) THEN None
    ELSE IF F64IsZero(a) /\ F64IsZero(b) THEN Some("Equal")
    ELSE IF a[1] # b[1] THEN (IF a[1] = 1 THEN Some("Less") ELSE Some("Greater"))
    ELSE IF a[1] = 0 THEN Some(UCmp(Tail(a), Tail(b)))
    ELSE Some(UCmp(Tail(b), Tail(a)))

\* `f as f64` of an f32, as the set of results a build may produce: the
\* same value in the wider format; a NaN keeps its sign and payload, and a
\* signalling NaN (quiet bit clear) may also come out quieted.
F32AsF64(f) ==
    LET e == SubSeq(f, 2, 9)
        m == SubSeq(f, 10, 32)
        p == CHOOSE i \in 1..23 : m[i] = 1 /\ \A j \in 1..(i - 1) : m[j] = 0
    IN  IF e = Ones(8) /\ ~IsZeroBits(m)
        THEN {<<f[1]>> \o Ones(11) \o m \o Zeros(29),
              <<f[1]>> \o Ones(11) \o <<1>> \o Tail(m) \o Zeros(29)}
        ELSE IF e = Ones(8) THEN {<<f[1]>> \o Ones(11) \o Zeros(52)}
        ELSE IF IsZeroBits(e) /\ IsZeroBits(m) THEN {<<f[1]>> \o Zeros(63)}
        ELSE IF IsZeroBits(e)
             THEN {<<f[1]>> \o NatBits(897 - p, 11) \o SubSeq(m, p + 1, 23) \o Zeros(29 + p)}
        ELSE {<<f[1]>> \o NatBits(BitsNat(e) + 896, 11) \o m \o Zeros(29)}

\* `n as f64` of a u64: round to nearest, ties to even, on 53 significant
\* bits (a carry out of the fraction goes into the exponent).
U64AsF64(n) ==
    LET l == BitLen(n)
        norm == SubSeq(n, 65 - l, 64) \o Zeros(64 - l)
        kept == <<0>> \o NatBits(1022 + l, 11) \o SubSeq(norm, 2, 53)
        rest == SubSeq(norm, 54, 64)
        half == <<1>> \o Zeros(10)
        up == \/ UCmp(rest, half) = "Greater"
              \/ rest = half /\ norm[53] = 1
    IN  IF l = 0 THEN Zeros(64)
        ELSE IF up THEN WrappingAdd(kept, NatBits(1, 64)) ELSE kept

\* `n as f64` of an i64: the sign and the rounded magnitude.
I64AsF64(n) ==
    IF n[1] = 1 THEN <<1>> \o Tail(U64AsF64(WrappingNeg(n))) ELSE U64AsF64(n)

(***************************************************************************)
(* enum N and struct Number                                                *)
(***************************************************************************)
PosInt(v) == [tag |-> "PosInt", v |-> v]

NegInt(v) == [tag |-> "NegInt", v |-> v]

Float(v) == [tag |-> "Float", v |-> v]

\* No Number has been built yet.
NoNumber == [tag |-> "none", v |-> <<>>]

\* i64::max_value() as u64
i64_max_value == <<0>> \o Ones(63)

\* The unchecked cast `n as i64` in place of the checked one.
NumCast_u64_i64_wrapping(n) == Some(n)

\* num_traits NumCast::from::<u64, i64>: the checked cast.
NumCast_u64_i64(n) ==
    IF UCmp(n, i64_max_value) \in {"Less", "Equal"} THEN Some(n) ELSE None

NumCast_u64_f64(n) == Some(U64AsF64(n))

NumCast_i64_f64(n) == Some(I64AsF64(n))

\* is_i64 without the upper bound on PosInt.
is_i64_unbounded(self) ==
    CASE self.tag \in {"PosInt", "NegInt"} -> TRUE
      [] self.tag = "Float" -> FALSE

is_i64(self) ==
    CASE self.tag = "PosInt" -> UCmp(self.v, i64_max_value) \in {"Less", "Equal"}
      [] self.tag = "NegInt" -> TRUE
      [] self.tag = "Float" -> FALSE

is_u64(self) ==
    CASE self.tag = "PosInt" -> TRUE
      [] self.tag \in {"NegInt", "Float"} -> FALSE

\* is_f64 as "can be represented by f64": true whenever as_f64 is Some.
is_f64_representable(self) == self.tag \in {"PosInt", "NegInt", "Float"}

is_f64(self) ==
    CASE self.tag = "Float" -> TRUE
      [] self.tag \in {"PosInt", "NegInt"} -> FALSE

as_i64(self) ==
    CASE self.tag = "PosInt" -> NumCast_u64_i64(self.v)
      [] self.tag = "NegInt" -> Some(self.v)
      [] self.tag = "Float" -> None

as_u64(self) ==
    CASE self.tag = "PosInt" -> Some(self.v)
      [] self.tag \in {"NegInt", "Float"} -> None

as_f64(self) ==
    CASE self.tag = "PosInt" -> NumCast_u64_f64(self.v)
      [] self.tag = "NegInt" -> NumCast_i64_f64(self.v)
      [] self.tag = "Float" -> Some(self.v)

is_nan(self) ==
    CASE self.tag \in {"PosInt", "NegInt"} -> FALSE
      [] self.tag = "Float" -> f64_is_nan(self.v)

is_infinite(self) ==
    CASE self.tag \in {"PosInt", "NegInt"} -> FALSE
      [] self.tag = "Float" -> f64_is_infinite(self.v)

is_finite(self) ==
    CASE self.tag \in {"PosInt", "NegInt"} -> TRUE
      [] self.tag = "Float" -> f64_is_finite(self.v)

\* The sign test off by one: zero goes to NegInt.
from_signed_zero_negative(i) ==
    IF SCmp(i, Zeros(Len(i))) \in {"Less", "Equal"}
    THEN NegInt(SignExtend(i, 64))
    ELSE PosInt(SignExtend(i, 64))

\* No sign test: every signed value goes to PosInt.
from_signed_no_sign_test(i) == PosInt(SignExtend(i, 64))

\* impl From<$signed_ty> for Number: i is a vector of the type's width.
from_signed(i) ==
    IF SCmp(i, Zeros(Len(i))) = "Less"
    THEN NegInt(SignExtend(i, 64))
    ELSE PosInt(SignExtend(i, 64))

\* impl From<$unsigned_ty> for Number
from_unsigned(u) == PosInt(ZeroExtend(u, 64))

\* `f as f64` of a native float of either type.
FloatAsF64(f) == IF Len(f) = 32 THEN F32AsF64(f) ELSE {f}

\* impl From<$float_ty> for Number: the Numbers a build may produce.
from_float(f) == {Float(g) : g \in FloatAsF64(f)}

\* #[derive(PartialOrd)] on enum N: the variants in declaration order, then
\* the payloads.
Discriminant(n) ==
    CASE n.tag = "PosInt" -> 0
      [] n.tag = "NegInt" -> 1
      [] n.tag = "Float" -> 2

partial_cmp(self, other) ==
    IF Discriminant(self) < Discriminant(other) THEN Some("Less")
    ELSE IF Discriminant(self) > Discriminant(other) THEN Some("Greater")
    ELSE CASE self.tag = "PosInt" -> Some(UCmp(self.v, other.v))
           [] self.tag = "NegInt" -> Some(SCmp(self.v, other.v))
           [] self.tag = "Float" -> f64_partial_cmp(self.v, other.v)


(***************************************************************************)
(* Display.  A text is a sequence of one-character strings.                *)
(***************************************************************************)
\* l / 10 and l % 10 of a 64-bit number given by its four limbs (long
\* division).
DivMod10(l) ==
    LET t1 == l[1]
        t2 == (t1 % 10) * 65536 + l[2]
        t3 == (t2 % 10) * 65536 + l[3]
        t4 == (t3 % 10) * 65536 + l[4]
    IN  [q |-> <<t1 \div 10, t2 \div 10, t3 \div 10, t4 \div 10>>, r |-> t4 % 10]

DigitChar(d) == <<"0", "1", "2", "3", "4", "5", "6", "7", "8", "9">>[d + 1]

RECURSIVE FmtDigits(_)
FmtDigits(l) ==
    IF \A k \in 1..4 : l[k] = 0 THEN <<>>
    ELSE Append(FmtDigits(DivMod10(l).q), DigitChar(DivMod10(l).r))

\* std's Display for u64: base 10, no leading zeros.
fmt_u64(n) == IF IsZeroBits(n) THEN <<"0">> ELSE FmtDigits(Limbs(n))

\* std's Display for i64: '-' and the magnitude (wrapping negation) when
\* negative.
fmt_i64(n) ==
    IF SCmp(n, Zeros(64)) = "Less" THEN <<"-">> \o fmt_u64(WrappingNeg(n)) ELSE fmt_u64(n)

\* std's Display for a finite f64, as the set of texts a toolchain may print
\* (-0.0 prints "0" before Rust 1.53 and "-0" since).  Covered: zeros, and
\* the multiples of 1/2 of magnitude from 0.5 to below 2^41, whose shortest
\* round-trip digits are their exact decimal; no other finite float is
\* rendered here.
fmt_f64(f) ==
    LET E == BitsNat(F64Exp(f))
        sig == <<1>> \o F64Frac(f)
        ip == ZeroExtend(SubSeq(sig, 1, E - 1022), 64)
        fr == SubSeq(sig, E - 1021, 53)
        sign == IF f[1] = 1 THEN <<"-">> ELSE <<>>
    IN  IF F64IsZero(f) THEN (IF f[1] = 1 THEN {<<"0">>, <<"-", "0">>} ELSE {<<"0">>})
        ELSE IF E \in 1022..1063 /\ IsZeroBits(Tail(fr))
             THEN {sign \o fmt_u64(ip) \o (IF fr[1] = 1 THEN <<".", "5">> ELSE <<>>)}
        ELSE {}

\* Display with the sign of the infinities decided the wrong way round.
fmt_inf_swapped(self) ==
    CASE self.tag = "PosInt" -> {fmt_u64(self.v)}
      [] self.tag = "NegInt" -> {fmt_i64(self.v)}
      [] self.tag = "Float" /\ f64_is_nan(self.v) -> {<<".", "n", "a", "n">>}
      [] self.tag = "Float" /\ ~f64_is_nan(self.v) /\ f64_is_infinite(self.v) ->
            IF f64_is_sign_negative(self.v)
            THEN {<<".", "i", "n", "f">>}
            ELSE {<<"-", ".", "i", "n", "f">>}
      [] self.tag = "Float" /\ ~f64_is_nan(self.v) /\ ~f64_is_infinite(self.v) ->
            fmt_f64(self.v)

\* impl fmt::Display for Number: the texts it may write.
fmt(self) ==
    CASE self.tag = "PosInt" -> {fmt_u64(self.v)}
      [] self.tag = "NegInt" -> {fmt_i64(self.v)}
      [] self.tag = "Float" /\ f64_is_nan(self.v) -> {<<".", "n", "a", "n">>}
      [] self.tag = "Float" /\ ~f64_is_nan(self.v) /\ f64_is_infinite(self.v) ->
            IF f64_is_sign_negative(self.v)
            THEN {<<"-", ".", "i", "n", "f">>}
            ELSE {<<".", "i", "n", "f">>}
      [] self.tag = "Float" /\ ~f64_is_nan(self.v) /\ ~f64_is_infinite(self.v) ->
            fmt_f64(self.v)

(***************************************************************************)
(* The serde bridge.  A serializer or a visitor of the framework is known  *)
(* by how it answers a call: "accepting" returns Ok of what it was given,  *)
(* "failing" returns its own error.  A bridge operation yields the calls   *)
(* it made and the value it returned.                                      *)
(***************************************************************************)
Serializers == {"accepting", "failing"}

ProbeVisitors == {"accepting", "failing"}

Call(method, v) == [method |-> method, v |-> v]

SerializerCall(serializer, method, v) ==
    IF serializer = "failing" THEN Err(<<"serializer", method>>) ELSE Ok(<<method, v>>)

\* visit_i64 storing its argument as NegInt without the sign routing.
visit_i64_unrouted(value) == Ok(NegInt(value))

\* NumberVisitor::visit_i64 / visit_u64 / visit_f64: value.into()
visit_i64(value) == Ok(from_signed(value))

visit_u64(value) == Ok(from_unsigned(value))

visit_f64(value) == Ok(CHOOSE n \in from_float(value) : TRUE)

\* NumberVisitor: the three methods it defines; every other Visitor method
\* keeps serde's default, an invalid-type error naming expecting().
NumberVisitor(method, v) ==
    CASE method = "visit_i64" -> visit_i64(v)
      [] method = "visit_u64" -> visit_u64(v)
      [] method = "visit_f64" -> visit_f64(v)
      [] OTHER -> Err(<<"invalid type", method, "a number">>)

\* visitor.method(v) for the visitors of the model.
Visit(visitor, method, v) ==
    CASE visitor = "NumberVisitor" -> NumberVisitor(method, v)
      [] visitor = "accepting" -> Ok(<<method, v>>)
      [] visitor = "failing" -> Err(<<"visitor", method>>)

\* Serialize sending NegInt through serialize_u64.
serialize_coerced(self, serializer) ==
    LET method == CASE self.tag \in {"PosInt", "NegInt"} -> "serialize_u64"
                    [] self.tag = "Float" -> "serialize_f64"
    IN  [calls |-> <<Call(method, self.v)>>,
         ret |-> SerializerCall(serializer, method, self.v)]

\* impl Serialize for Number
serialize(self, serializer) ==
    LET method == CASE self.tag = "PosInt" -> "serialize_u64"
                    [] self.tag = "NegInt" -> "serialize_i64"
                    [] self.tag = "Float" -> "serialize_f64"
    IN  [calls |-> <<Call(method, self.v)>>,
         ret |-> SerializerCall(serializer, method, self.v)]

\* impl Deserializer for Number: deserialize_any
deserialize_any(self, visitor) ==
    LET method == CASE self.tag = "PosInt" -> "visit_u64"
                    [] self.tag = "NegInt" -> "visit_i64"
                    [] self.tag = "Float" -> "visit_f64"
    IN  [calls |-> <<Call(method, self.v)>>, ret |-> Visit(visitor, method, self.v)]

\* impl Deserializer for &Number: deserialize_any
ref_deserialize_any(self, visitor) ==
    LET method == CASE self.tag = "PosInt" -> "visit_u64"
                    [] self.tag = "NegInt" -> "visit_i64"
                    [] self.tag = "Float" -> "visit_f64"
    IN  [calls |-> <<Call(method, self.v)>>, ret |-> Visit(visitor, method, self.v)]

\* The typed entry points of forward_to_deserialize_any!.
Forwarded ==
    {"bool", "i8", "i16", "i32", "i64", "u8", "u16", "u32", "u64", "f32", "f64",
     "char", "str", "string", "bytes", "byte_buf", "option", "unit",
     "unit_struct", "newtype_struct", "seq", "tuple", "tuple_struct", "map",
     "struct", "enum", "identifier", "ignored_any"}

EntryPoints == {"any"} \cup Forwarded

Receivers == {"Number", "&Number"}

\* deserialize_<entry>(visitor) on a Number (owned) or a &Number.
deserialize_entry(receiver, self, entry, visitor) ==
    IF receiver = "Number"
    THEN deserialize_any(self, visitor)
    ELSE ref_deserialize_any(self, visitor)

\* impl Deserialize for Number, with a Number or a &Number as the
\* deserializer: deserializer.deserialize_any(NumberVisitor).
deserialize(receiver, deserializer) ==
    deserialize_entry(receiver, deserializer, "any", "NumberVisitor")

(***************************************************************************)
(* Native inputs: for each integer type the values within Near of 0, of    *)
(* the type's MIN and MAX and of the signed maximum of its width, and the  *)
(* values the documentation uses (64, -64, i64::MAX + 10, 256.0).          *)
(***************************************************************************)
SignedInputs(w) ==
    LET min == <<1>> \o Zeros(w - 1)
        max == <<0>> \o Ones(w - 1)
    IN  {NatBits(k, w) : k \in 0..Near}
          \cup {WrappingNeg(NatBits(k, w)) : k \in 1..Near}
          \cup {WrappingAdd(min, NatBits(k, w)) : k \in 0..Near}
          \cup {WrappingSub(max, NatBits(k, w)) : k \in 0..Near}
          \cup {NatBits(64, w), WrappingNeg(NatBits(64, w))}

UnsignedInputs(w) ==
    LET smax == <<0>> \o Ones(w - 1)
    IN  {NatBits(k, w) : k \in 0..Near}
          \cup {WrappingSub(Ones(w), NatBits(k, w)) : k \in 0..Near}
          \cup {WrappingSub(smax, NatBits(k, w)) : k \in 0..Near}
          \cup {WrappingAdd(smax, NatBits(k + 1, w)) : k \in 0..Near}
          \cup {NatBits(64, w)}
          \cup (IF w = 64 THEN {WrappingAdd(smax, NatBits(10, w))} ELSE {})

MkF64(s, e, top) == <<s>> \o NatBits(e, 11) \o top \o Zeros(52 - Len(top))

MkF32(s, e, top) == <<s>> \o NatBits(e, 8) \o top \o Zeros(23 - Len(top))

\* +0.0, -0.0, 0.5, 1.5, 256.0, -64.5, the infinities, and NaNs of both
\* signs, quiet and signalling.
F64Inputs ==
    {MkF64(0, 0, <<>>), MkF64(1, 0, <<>>), MkF64(0, 1022, <<>>), MkF64(0, 1023, <<1>>),
     MkF64(0, 1031, <<>>), MkF64(1, 1029, <<0, 0, 0, 0, 0, 0, 1>>),
     MkF64(0, 2047, <<>>), MkF64(1, 2047, <<>>),
     MkF64(0, 2047, <<1>>), MkF64(1, 2047, <<1>>), MkF64(0, 2047, <<0, 1>>)}

F32Inputs ==
    {MkF32(0, 0, <<>>), MkF32(1, 0, <<>>), MkF32(0, 126, <<>>), MkF32(0, 127, <<1>>),
     MkF32(0, 135, <<>>), MkF32(1, 133, <<0, 0, 0, 0, 0, 0, 1>>),
     MkF32(0, 255, <<>>), MkF32(1, 255, <<>>),
     MkF32(0, 255, <<1>>), MkF32(1, 255, <<1>>), MkF32(0, 255, <<0, 1>>)}

NativeTy == SignedTy \cup UnsignedTy \cup FloatTy

Inputs ==
    [ty \in NativeTy |->
        IF ty \in SignedTy THEN SignedInputs(Width(ty))
        ELSE IF ty \in UnsignedTy THEN UnsignedInputs(Width(ty))
        ELSE IF ty = "f32" THEN F32Inputs
        ELSE F64Inputs]

\* Number::from(x) for a native integer x of type ty.
from(ty, x) == IF ty \in SignedTy THEN from_signed(x) ELSE from_unsigned(x)

\* The right-hand sides of comparisons.
CmpTy == {"i8", "i64", "u8", "u64"}

\* What a foreign deserializer may hand to NumberVisitor.
ExternalCalls ==
    {Call("visit_i64", v) : v \in Inputs["i64"]}
      \cup {Call("visit_u64", v) : v \in Inputs["u64"]}
      \cup {Call("visit_f64", v) : v \in Inputs["f64"]}
      \cup {Call("visit_bool", <<1>>), Call("visit_str", <<>>)}

\* The native type a visitor method receives.
VisitTy(method) ==
    CASE method = "visit_i64" -> "i64"
      [] method = "visit_u64" -> "u64"
      [] method = "visit_f64" -> "f64"
      [] OTHER -> "other"

(***************************************************************************)
(* State: the Number at hand, the native value and path it was built       *)
(* from, the last operation on it with its result, and the calls that      *)
(* operation made on the framework's serializer or visitor.                *)
(***************************************************************************)
VARIABLES num, arg, out, calls

vars == <<num, arg, out, calls>>

NoArg == [path |-> "none", ty |-> "none", bits |-> <<>>]

NoOut == [op |-> "none", with |-> <<>>, val |-> <<>>]

Result(op, with, val) == [op |-> op, with |-> with, val |-> val]

Init ==
    /\ num = NoNumber
    /\ arg = NoArg
    /\ out = NoOut
    /\ calls = <<>>

Built(n, path, ty, x) ==
    /\ num = NoNumber
    /\ num' = n
    /\ arg' = [path |-> path, ty |-> ty, bits |-> x]
    /\ out' = NoOut
    /\ calls' = <<>>

FromSigned(ty, i) == Built(from_signed(i), "from", ty, i)

FromUnsigned(ty, u) == Built(from_unsigned(u), "from", ty, u)

FromFloat(ty, f) == \E n \in from_float(f) : Built(n, "from", ty, f)

\* Number::deserialize(d) for a foreign deserializer d whose deserialize_any
\* makes the visitor call c: a Number on Ok, the visitor's error otherwise.
DeserializeExternal(c) ==
    LET r == NumberVisitor(c.method, c.v)
    IN  /\ num = NoNumber
        /\ IF r[1] = "Ok"
           THEN /\ num' = r[2]
                /\ arg' = [path |-> c.method, ty |-> VisitTy(c.method), bits |-> c.v]
                /\ out' = NoOut
           ELSE /\ out' = Result("deserialize", c.method, r)
                /\ UNCHANGED <<num, arg>>
        /\ calls' = <<>>

\* The Number goes out of scope.
Drop ==
    /\ num # NoNumber \/ out # NoOut
    /\ num' = NoNumber
    /\ arg' = NoArg
    /\ out' = NoOut
    /\ calls' = <<>>

\* The caller takes the result of the last operation; the Number stays.
Return ==
    /\ num # NoNumber
    /\ out # NoOut
    /\ out' = NoOut
    /\ calls' = <<>>
    /\ UNCHANGED <<num, arg>>

\* A method of &self that calls nothing outside.
Query(op, with, val) ==
    /\ num # NoNumber
    /\ out = NoOut
    /\ out' = Result(op, with, val)
    /\ calls' = <<>>
    /\ UNCHANGED <<num, arg>>

IsI64 == Query("is_i64", <<>>, is_i64(num))

IsU64 == Query("is_u64", <<>>, is_u64(num))

IsF64 == Query("is_f64", <<>>, is_f64(num))

AsI64 == Query("as_i64", <<>>, as_i64(num))

AsU64 == Query("as_u64", <<>>, as_u64(num))

AsF64 == Query("as_f64", <<>>, as_f64(num))

IsNan == Query("is_nan", <<>>, is_nan(num))

IsInfinite == Query("is_infinite", <<>>, is_infinite(num))

IsFinite == Query("is_finite", <<>>, is_finite(num))

Display ==
    /\ num # NoNumber
    /\ out = NoOut
    /\ \E text \in fmt(num) : Query("fmt", <<>>, text)

\* num.partial_cmp(&Number::from(x))
PartialCmp(ty, x) == Query("partial_cmp", <<ty, x>>, partial_cmp(num, from(ty, x)))

\* A bridge operation: its calls on the framework and what it returned.
Bridge(op, with, r) ==
    /\ num # NoNumber
    /\ out = NoOut
    /\ out' = Result(op, with, r.ret)
    /\ calls' = r.calls
    /\ UNCHANGED <<num, arg>>

Serialize(serializer) == Bridge("serialize", serializer, serialize(num, serializer))

DeserializeEntry(receiver, entry, visitor) ==
    Bridge("deserialize_entry", <<receiver, entry, visitor>>,
           deserialize_entry(receiver, num, entry, visitor))

\* Number::deserialize(num) and Number::deserialize(&num)
DeserializeNumber(receiver) ==
    Bridge("deserialize", receiver, deserialize(receiver, num))

Next ==
    \/ \E ty \in SignedTy : \E i \in Inputs[ty] : FromSigned(ty, i)
    \/ \E ty \in UnsignedTy : \E u \in Inputs[ty] : FromUnsigned(ty, u)
    \/ \E ty \in FloatTy : \E f \in Inputs[ty] : FromFloat(ty, f)
    \/ \E c \in ExternalCalls : DeserializeExternal(c)
    \/ Drop
    \/ Return
    \/ IsI64
    \/ IsU64
    \/ IsF64
    \/ AsI64
    \/ AsU64
    \/ AsF64
    \/ IsNan
    \/ IsInfinite
    \/ IsFinite
    \/ Display
    \/ \E ty \in CmpTy : \E x \in Inputs[ty] : PartialCmp(ty, x)
    \/ \E serializer \in Serializers : Serialize(serializer)
    \/ \E receiver \in Receivers, entry \in EntryPoints, visitor \in ProbeVisitors :
          DeserializeEntry(receiver, entry, visitor)
    \/ \E receiver \in Receivers : DeserializeNumber(receiver)

Spec == Init /\ [][Next]_vars

(***************************************************************************)
(* What the claims speak of: the mathematical value of the native input,   *)
(* read off its own bits.                                                  *)
(***************************************************************************)
IsIntArg == arg.ty \in SignedTy \cup UnsignedTy

IsFloatArg == arg.ty \in FloatTy

FromPath == arg.path = "from"

\* The native integer is below zero.
ArgNeg == arg.ty \in SignedTy /\ arg.bits[1] = 1

\* Its magnitude as an unsigned 64-bit vector.
ArgMag ==
    IF ArgNeg THEN ZeroExtend(WrappingNeg(arg.bits), 64) ELSE ZeroExtend(arg.bits, 64)

\* The value of an integer of type ty: sign and magnitude.
MathVal(ty, bits) ==
    IF ty \in SignedTy /\ bits[1] = 1
    THEN [neg |-> TRUE, mag |-> ZeroExtend(WrappingNeg(bits), 64)]
    ELSE [neg |-> FALSE, mag |-> ZeroExtend(bits, 64)]

ArgVal == MathVal(arg.ty, arg.bits)

MathLess(x, y) ==
    IF x.neg # y.neg THEN x.neg
    ELSE IF x.neg THEN UCmp(y.mag, x.mag) = "Less"
    ELSE UCmp(x.mag, y.mag) = "Less"

\* The exponent and fraction fields of the native float.
ArgExp == SubSeq(arg.bits, 2, IF arg.ty = "f32" THEN 9 ELSE 12)

ArgFrac == SubSeq(arg.bits, IF arg.ty = "f32" THEN 10 ELSE 13, Len(arg.bits))

ArgIsNaN == IsFloatArg /\ (\A i \in 1..Len(ArgExp) : ArgExp[i] = 1) /\ ~IsZeroBits(ArgFrac)

ArgIsInf(sign) ==
    /\ IsFloatArg
    /\ \A i \in 1..Len(ArgExp) : ArgExp[i] = 1
    /\ IsZeroBits(ArgFrac)
    /\ arg.bits[1] = sign

\* The f64 patterns a native float may widen to.
ArgF64 == IF arg.ty = "f32" THEN F32AsF64(arg.bits) ELSE {arg.bits}

NanText == <<".", "n", "a", "n">>

InfText == <<".", "i", "n", "f">>

NegInfText == <<"-", ".", "i", "n", "f">>

DigitSet == {"0", "1", "2", "3", "4", "5", "6", "7", "8", "9"}

DigitVal(c) ==
    CASE c = "0" -> 0 [] c = "1" -> 1 [] c = "2" -> 2 [] c = "3" -> 3 [] c = "4" -> 4
      [] c = "5" -> 5 [] c = "6" -> 6 [] c = "7" -> 7 [] c = "8" -> 8 [] c = "9" -> 9

\* l * 10 + d on four 16-bit limbs.
MulAdd10(l, d) ==
    LET t4 == l[4] * 10 + d
        t3 == l[3] * 10 + t4 \div 65536
        t2 == l[2] * 10 + t3 \div 65536
        t1 == l[1] * 10 + t2 \div 65536
    IN  <<t1 % 65536, t2 % 65536, t3 % 65536, t4 % 65536>>

RECURSIVE ParseDec(_, _)
ParseDec(text, k) ==
    IF k = 0 THEN <<0, 0, 0, 0>> ELSE MulAdd10(ParseDec(text, k - 1), DigitVal(text[k]))

\* text is the base-10 numeral of the 64-bit magnitude mag, without sign,
\* separators or leading zeros.
IsDecimalOf(text, mag) ==
    /\ Len(text) \in 1..20
    /\ \A i \in 1..Len(text) : text[i] \in DigitSet
    /\ Len(text) > 1 => text[1] # "0"
    /\ ParseDec(text, Len(text)) = Limbs(mag)

\* C1: whenever is_i64() is true as_i64() returns Some of the exact integer
\* value, whenever is_u64() is true as_u64() returns Some of the exact
\* integer value, and whenever is_f64() is true as_f64() returns Some of the
\* stored float, for a Number built by any From or by any visit of the
\* inbound visitor.
C1_PredicateGuaranteesExtraction ==
    /\ (out.op = "as_i64" /\ is_i64(num)) =>
          /\ IsIntArg
          /\ out.val[1] = "Some"
          /\ MathVal("i64", out.val[2]) = ArgVal
    /\ (out.op = "as_u64" /\ is_u64(num)) =>
          /\ IsIntArg
          /\ out.val[1] = "Some"
          /\ MathVal("u64", out.val[2]) = ArgVal
    /\ (out.op = "as_f64" /\ is_f64(num)) =>
          /\ IsFloatArg
          /\ out.val[1] = "Some"
          /\ out.val[2] \in ArgF64

\* as_i64 has answered on the largest PosInt that is_i64 accepts, i64::MAX
\* handed in as a u64.
C1_Witness ==
    /\ out.op = "as_i64"
    /\ is_i64(num)
    /\ num = PosInt(i64_max_value)
    /\ arg.ty = "u64"

\* C2: a Number whose variant is NegInt has a payload strictly below zero,
\* whatever built it, and zero is always stored as PosInt(0).
C2_NegIntIsNegative ==
    /\ num.tag = "NegInt" => num.v[1] = 1 /\ ArgNeg
    /\ (IsIntArg /\ IsZeroBits(arg.bits)) => num = PosInt(Zeros(64))

\* visit_i64(0) has built a Number.
C2_Witness ==
    /\ arg.path = "visit_i64"
    /\ IsZeroBits(arg.bits)
    /\ num.tag = "PosInt"

\* C3: Number::from(v).as_i64() == Some(v) for every i64 v, and
\* Number::from(v).as_u64() == Some(v) for every u64 v.
C3_RoundTrip ==
    /\ (FromPath /\ arg.ty = "i64" /\ out.op = "as_i64") => out.val = Some(arg.bits)
    /\ (FromPath /\ arg.ty = "u64" /\ out.op = "as_u64") => out.val = Some(arg.bits)

\* as_i64 has answered on Number::from(i64::MIN).
C3_Witness ==
    /\ FromPath
    /\ arg.ty = "i64"
    /\ arg.bits = <<1>> \o Zeros(63)
    /\ out.op = "as_i64"

\* C4: for an integer v built from any signed or unsigned native type, if
\* v >= 0 then is_u64() is true and as_u64() == Some(v); if v < 0 then
\* is_i64() is true, is_u64() is false, as_u64() is None and
\* as_i64() == Some(v).
C4_SignRouting ==
    (FromPath /\ IsIntArg) =>
       IF ArgNeg
       THEN /\ out.op = "is_i64" => out.val = TRUE
            /\ out.op = "is_u64" => out.val = FALSE
            /\ out.op = "as_u64" => out.val = None
            /\ out.op = "as_i64" =>
                  out.val[1] = "Some" /\ MathVal("i64", out.val[2]) = ArgVal
       ELSE /\ out.op = "is_u64" => out.val = TRUE
            /\ out.op = "as_u64" =>
                  out.val[1] = "Some" /\ MathVal("u64", out.val[2]) = ArgVal

\* as_u64 has answered on a Number built from the signed value 0i8.
C4_Witness ==
    /\ FromPath
    /\ arg.ty = "i8"
    /\ IsZeroBits(arg.bits)
    /\ out.op = "as_u64"

\* C5: for every u64 v, Number::from(v).is_i64() is true exactly when
\* v <= i64::MAX, as_i64() is Some(v) exactly then and None otherwise, and
\* for v > i64::MAX is_u64() is true and as_u64() == Some(v).
C5_SignedBoundary ==
    (FromPath /\ arg.ty = "u64") =>
       /\ out.op = "is_i64" => out.val = (arg.bits[1] = 0)
       /\ out.op = "as_i64" =>
             out.val = (IF arg.bits[1] = 0 THEN Some(arg.bits) ELSE None)
       /\ (arg.bits[1] = 1 /\ out.op = "is_u64") => out.val = TRUE
       /\ (arg.bits[1] = 1 /\ out.op = "as_u64") => out.val = Some(arg.bits)

\* as_i64 has answered on Number::from(9223372036854775817u64).
C5_Witness ==
    /\ FromPath
    /\ arg.ty = "u64"
    /\ arg.bits = WrappingAdd(i64_max_value, NatBits(10, 64))
    /\ fmt_u64(num.v) = <<"9", "2", "2", "3", "3", "7", "2", "0", "3", "6", "8", "5",
                          "4", "7", "7", "5", "8", "1", "7">>
    /\ out.op = "as_i64"

\* C6: for a Number built from a float (f32 or f64, integer-valued, NaN or
\* infinite included) is_f64() is true, is_i64() and is_u64() are false and
\* as_i64() and as_u64() are None; and for every Number is_f64() is true if
\* and only if is_i64() and is_u64() are both false.
C6_FloatByVariant ==
    /\ IsFloatArg =>
          /\ out.op = "is_f64" => out.val = TRUE
          /\ out.op \in {"is_i64", "is_u64"} => out.val = FALSE
          /\ out.op \in {"as_i64", "as_u64"} => out.val = None
    /\ out.op = "is_f64" => out.val = (~is_i64(num) /\ ~is_u64(num))

\* is_i64 has answered on Number::from(256.0).
C6_Witness ==
    /\ FromPath
    /\ arg.ty = "f64"
    /\ arg.bits = MkF64(0, 1031, <<>>)
    /\ out.op = "is_i64"

\* C7: the text Display writes is ".nan" exactly for a Float NaN of either
\* sign, ".inf" exactly for Float +infinity, "-.inf" exactly for Float
\* -infinity; an integer is written as its base-10 numeral, with a leading
\* '-' exactly when it is negative, and so never as one of the three tokens.
C7_Display ==
    out.op = "fmt" =>
       /\ out.val = NanText <=> ArgIsNaN
       /\ out.val = InfText <=> ArgIsInf(0)
       /\ out.val = NegInfText <=> ArgIsInf(1)
       /\ IsIntArg =>
             IF ArgNeg
             THEN num.tag = "NegInt" /\ out.val[1] = "-" /\ IsDecimalOf(Tail(out.val), ArgMag)
             ELSE num.tag = "PosInt" /\ IsDecimalOf(out.val, ArgMag)

\* Display has written a NaN whose sign bit is set.
C7_Witness ==
    /\ out.op = "fmt"
    /\ ArgIsNaN
    /\ arg.bits[1] = 1
    /\ out.val = NanText

\* The primitive event of each variant, outbound and as a data source.
EventOf(tag) ==
    CASE tag = "PosInt" -> [ser |-> "serialize_u64", de |-> "visit_u64"]
      [] tag = "NegInt" -> [ser |-> "serialize_i64", de |-> "visit_i64"]
      [] tag = "Float" -> [ser |-> "serialize_f64", de |-> "visit_f64"]

\* C8: Serialize::serialize makes exactly one serializer call, the one of
\* the active variant with the payload unchanged; a Number or &Number used
\* as a Deserializer makes exactly one visitor call by the same rule,
\* whichever deserialize_* entry point is asked; both return the result or
\* the error of that call unchanged.
C8_OneEventPerValue ==
    /\ out.op = "serialize" =>
          /\ calls = <<Call(EventOf(num.tag).ser, num.v)>>
          /\ out.val = SerializerCall(out.with, EventOf(num.tag).ser, num.v)
    /\ out.op = "deserialize_entry" =>
          /\ calls = <<Call(EventOf(num.tag).de, num.v)>>
          /\ out.val = Visit(out.with[3], EventOf(num.tag).de, num.v)

\* A borrowed NegInt asked through deserialize_u64 has called a visitor that
\* failed.
C8_Witness ==
    /\ out.op = "deserialize_entry"
    /\ out.with = <<"&Number", "u64", "failing">>
    /\ num.tag = "NegInt"
    /\ out.val[1] = "Err"

\* C9: for two native integers a < b of any signed or unsigned type,
\* Number::from(a) < Number::from(b), that is, partial_cmp answers
\* Some(Less); a Number built from a negative integer is less than one built
\* from a non-negative integer.
C9_OrderPreserving ==
    (out.op = "partial_cmp" /\ FromPath /\ IsIntArg
       /\ MathLess(ArgVal, MathVal(out.with[1], out.with[2])))
    => out.val = Some("Less")

\* C10: for a Number n built by any From, Number::deserialize with n (owned
\* or borrowed) as the deserializer returns Ok of a Number with n's variant
\* and payload; and a source emitting visit_i64(v) with v >= 0 yields the
\* Number that one emitting visit_u64(v) yields.
C10_BridgeRoundTrip ==
    /\ (out.op = "deserialize" /\ FromPath) =>
          /\ out.val[1] = "Ok"
          /\ out.val[2].tag = num.tag
          /\ out.val[2].v = num.v
    /\ (arg.path = "visit_i64" /\ ~ArgNeg) => Ok(num) = visit_u64(arg.bits)

\* Number::deserialize(&n) has answered for n = Number::from(-64i8).
C10_Witness ==
    /\ out.op = "deserialize"
    /\ out.with = "&Number"
    /\ FromPath
    /\ arg.ty = "i8"
    /\ arg.bits = WrappingNeg(NatBits(64, 8))
====
